---- MODULE Spec2Model ----
(***************************************************************************)
(* The ZIP record encoders of src/squash_zip/zip_file_record.rs: the local *)
(* file header, the central directory header and the end of central        *)
(* directory (with its ZIP64 record and locator), written field by field   *)
(* to an output sink that may fail.                                        *)
(*                                                                         *)
(* Numbers wider than 16 bits are kept as sequences of 16-bit limbs, most  *)
(* significant limb first (a u32 has 2 limbs, a u64 has 4), so that u32    *)
(* and u64 values keep their exact width.  Byte strings are kept           *)
(* run-length encoded (a sequence of runs [b, n], n > 0, adjacent runs of  *)
(* different bytes), so that a 65535-byte file name is an ordinary value.  *)
(***************************************************************************)
EXTENDS Integers, Sequences, FiniteSets, TLC

VARIABLES record, output_zip, result, calls, writes, reserved, argument

vars == <<record, output_zip, result, calls, writes, reserved, argument>>

----------------------------------------------------------------------------
(* Bounds of the model *)

\* File names are built from at most this many characters
MaxNameChars == 2
\* At most this many write()/reserve_space() calls go to one output
MaxCalls == 2
\* The output fails, if it does, at one of its first MaxFaultAfter + 1 writes
MaxFaultAfter == 22

----------------------------------------------------------------------------
(* Integer widths *)

U16Max == 65535

\* A u16 as a u32 / a u64 (widening `as`)
U16AsU32(v) == <<0, v>>
U16AsU64(v) == <<0, 0, 0, v>>
\* u32::MAX as u64, u16::MAX as u64
U32MaxAsU64 == <<0, 0, U16Max, U16Max>>
U16MaxAsU64 == <<0, 0, 0, U16Max>>
U32MaxValue == <<U16Max, U16Max>>

\* a > b for two numbers of the same number of limbs
RECURSIVE Gt(_, _)
Gt(a, b) ==
    IF a = <<>> THEN FALSE
    ELSE IF Head(a) # Head(b) THEN Head(a) > Head(b)
    ELSE Gt(Tail(a), Tail(b))

\* Truncating `as u32` and `as u16` of a u64
U64AsU32(v) == <<v[3], v[4]>>
U64AsU16(v) == v[4]

\* to_le_bytes of a u16
U16ToLeBytes(v) == <<v % 256, v \div 256>>

\* to_le_bytes of a limb sequence: the least significant limb comes first
RECURSIVE ToLeBytes(_)
ToLeBytes(limbs) ==
    IF limbs = <<>> THEN <<>>
    ELSE ToLeBytes(Tail(limbs)) \o U16ToLeBytes(Head(limbs))

\* An i64 of small magnitude as limbs (two's complement)
I64Limbs(v) ==
    IF v >= 0 THEN <<0, 0, 0, v>>
    ELSE <<U16Max, U16Max, U16Max, U16Max + 1 + v>>

----------------------------------------------------------------------------
(* Byte strings, run-length encoded *)

\* vec![b; n]
Rep(b, n) == IF n = 0 THEN <<>> ELSE <<[b |-> b, n |-> n]>>

\* x followed by y
Cat(x, y) ==
    IF x = <<>> THEN y
    ELSE IF y = <<>> THEN x
    ELSE IF x[Len(x)].b = y[1].b
         THEN SubSeq(x, 1, Len(x) - 1)
              \o <<[b |-> y[1].b, n |-> x[Len(x)].n + y[1].n]>>
              \o Tail(y)
         ELSE x \o y

\* The byte string holding the bytes of the sequence s
RECURSIVE Bytes(_)
Bytes(s) == IF s = <<>> THEN <<>> ELSE Cat(Rep(Head(s), 1), Bytes(Tail(s)))

\* Number of bytes
RECURSIVE BLen(_)
BLen(x) == IF x = <<>> THEN 0 ELSE x[1].n + BLen(Tail(x))

\* The first k bytes of x
RECURSIVE Take(_, _)
Take(x, k) ==
    IF k <= 0 \/ x = <<>> THEN <<>>
    ELSE IF x[1].n >= k THEN <<[b |-> x[1].b, n |-> k]>>
    ELSE <<x[1]>> \o Take(Tail(x), k - x[1].n)

\* x without its first k bytes
RECURSIVE Drop(_, _)
Drop(x, k) ==
    IF k <= 0 \/ x = <<>> THEN x
    ELSE IF x[1].n > k THEN <<[b |-> x[1].b, n |-> x[1].n - k]>> \o Tail(x)
    ELSE Drop(Tail(x), k - x[1].n)

\* The bytes of x as a plain sequence (for short strings)
RECURSIVE Plain(_)
Plain(x) ==
    IF x = <<>> THEN <<>>
    ELSE [i \in 1..x[1].n |-> x[1].b] \o Plain(Tail(x))

\* The w bytes of x that start at the 0-based offset off
Field(x, off, w) == Plain(Take(Drop(x, off), w))

\* x is a prefix of y
IsPrefix(x, y) == Take(y, BLen(x)) = x

----------------------------------------------------------------------------
(* Constants of the format *)

DUMMY_SQUASH_TIME == ToLeBytes(<<33, 0>>)

FILE_ATTRIBUTE_READONLY == <<0, 1>>

LOCAL_FILE_HEADER_SIGNATURE == ToLeBytes(<<1027, 19280>>)
CENTRAL_DIRECTORY_HEADER_SIGNATURE == ToLeBytes(<<513, 19280>>)
ZIP64_END_OF_CENTRAL_DIRECTORY_SIGNATURE == ToLeBytes(<<1542, 19280>>)
ZIP64_END_OF_CENTRAL_DIRECTORY_LOCATOR_SIGNATURE == ToLeBytes(<<1798, 19280>>)
END_OF_CENTRAL_DIRECTORY_SIGNATURE == ToLeBytes(<<1541, 19280>>)

LocalFixedSize == 30
LOCAL_FILE_HEADER_CONSTANT_FIELDS_PADDING == Rep(0, LocalFixedSize)

----------------------------------------------------------------------------
(* ZipFeature, CompressionMethod *)

\* The features in declaration order, which is the iteration order of EnumSet
ZipFeature == <<"Zip64Extensions", "DeflateCompression", "BasicFeatures">>

to_version_needed_to_extract(feature) ==
    CASE feature = "Zip64Extensions" -> 45
      [] feature = "DeflateCompression" -> 20
      [] feature = "BasicFeatures" -> 10

\* A version that comes from the lowest-ranked feature present
version_of_last_feature(zip_features) ==
    LET present == {i \in 1..Len(ZipFeature) : ZipFeature[i] \in zip_features}
        last == CHOOSE i \in present : \A j \in present : i >= j
    IN  to_version_needed_to_extract(
            IF present = {} THEN "BasicFeatures" ELSE ZipFeature[last])

version_needed_to_extract(zip_features) ==
    LET present == {i \in 1..Len(ZipFeature) : ZipFeature[i] \in zip_features}
        first == CHOOSE i \in present : \A j \in present : i <= j
    IN  to_version_needed_to_extract(
            IF present = {} THEN "BasicFeatures" ELSE ZipFeature[first])

\* A version made by that is never spoofed
version_made_by_unspoofed(spoof_version_made_by) ==
    U16ToLeBytes(to_version_needed_to_extract("Zip64Extensions"))

get_version_made_by(spoof_version_made_by) ==
    IF spoof_version_made_by THEN <<30, 3>>
    ELSE U16ToLeBytes(to_version_needed_to_extract("Zip64Extensions"))

CompressionMethod == {"Store", "Deflate"}

to_compression_method_field(method) ==
    CASE method = "Store" -> 0
      [] method = "Deflate" -> 8

\* A reading of the field that takes an unknown code for Store
unknown_field_read_as_store(field) ==
    IF field = 8 THEN [ok |-> TRUE, method |-> "Deflate"]
    ELSE [ok |-> TRUE, method |-> "Store"]

\* Ok(method), or Err(SquashZipError::UnknownCompressionMethod(field))
from_compression_method_field(field) ==
    CASE field = 0 -> [ok |-> TRUE, method |-> "Store"]
      [] field = 8 -> [ok |-> TRUE, method |-> "Deflate"]
      [] OTHER -> [ok |-> FALSE, error |-> "UnknownCompressionMethod", field |-> field]

\* A flag that looks at the first byte of the file name only
flag_of_first_byte(file_name) ==
    (IF file_name = <<>> \/ file_name[1].b < 128 THEN 0 ELSE 1) * (2 ^ 11)

\* !file_name.is_ascii() as u16, shifted to bit 11
get_general_purpose_bit_flag(file_name) ==
    (IF \A i \in 1..Len(file_name) : file_name[i].b < 128 THEN 0 ELSE 1) * (2 ^ 11)

----------------------------------------------------------------------------
(* Inputs *)

\* The characters file names are made of, in UTF-8: "a" and "e acute"
Chars == {<<97>>, <<195, 169>>}

RECURSIVE Flatten(_)
Flatten(ss) == IF ss = <<>> THEN <<>> ELSE Head(ss) \o Flatten(Tail(ss))

ShortNames ==
    {Bytes(Flatten(cs)) : cs \in UNION {[1..n -> Chars] : n \in 0..MaxNameChars}}

\* File names at the limit of the 16-bit file name length field, and past it
LongNames == {Rep(97, U16Max), Rep(97, U16Max + 1)}

FileNames == ShortNames \cup LongNames

\* Values of the fields that describe an entry's content
EntryContents ==
    { [squash_time |-> DUMMY_SQUASH_TIME, crc32 |-> <<0, 0>>,
       compressed_size |-> <<0, 0>>, uncompressed_size |-> <<0, 0>>],
      [squash_time |-> <<221, 204, 187, 170>>, crc32 |-> <<52212, 14630>>,
       compressed_size |-> <<0, 11>>, uncompressed_size |-> <<U16Max, U16Max>>] }

\* The disk a local file header is on, for each of these
LocalHeaderDiskNumber(content) ==
    IF content.squash_time = DUMMY_SQUASH_TIME THEN 0 ELSE 258

\* Offsets of a local file header: ordinary, u32::MAX, u32::MAX + 1, large
LocalHeaderOffsets ==
    {<<0, 0, 4660, 22136>>, U32MaxAsU64, <<0, 1, 0, 0>>, <<258, 772, 1286, 1800>>}

\* Entry counts: none, u16::MAX, and past it (70000)
EntryCounts == {<<0, 0, 0, 0>>, U16MaxAsU64, <<0, 0, 1, 4464>>}

\* Sizes and offsets of the central directory: ordinary, u32::MAX, past it
DirectoryExtents == {<<0, 0, 1, 515>>, U32MaxAsU64, <<0, 1, 0, 2>>}

\* The disks of the archive, where the end of central directory is, and the
\* correction of the ZIP64 record size
Layouts ==
    { [disk_number |-> 0, central_directory_start_disk_number |-> 0,
       total_number_of_disks |-> <<0, 1>>,
       current_file_offset |-> <<0, 0, 2, 772>>, zip64_size_offset |-> 0],
      [disk_number |-> 772, central_directory_start_disk_number |-> 258,
       total_number_of_disks |-> <<1, 773>>,
       current_file_offset |-> <<2, 1, 0, 4112>>, zip64_size_offset |-> 0 - 50] }

\* Every i8 correction of the ZIP64 record size
SizeOffsets == (0 - 128)..127

\* How many bytes of its buffer a failing write accepts, at most
PartialAccepts == {0, 1}

\* When the sink fails, for an output that has accepted `done` writes: never,
\* or at the write that follows `left` more accepted ones, of which it
\* accepts `partial` bytes at most
Faults(done) ==
    {[armed |-> FALSE, left |-> 0, partial |-> 0]}
        \cup {[armed |-> TRUE, left |-> k - done, partial |-> p] :
                 k \in done..MaxFaultAfter, p \in PartialAccepts}

----------------------------------------------------------------------------
(* The output sink *)

\* The sink as one call sees it: the bytes it holds, the fault ahead, whether
\* a write has failed, and how many writes were issued after a failed one
Sink(bytes, fault) ==
    [bytes |-> bytes, armed |-> fault.armed, left |-> fault.left,
     partial |-> fault.partial, err |-> FALSE, late |-> 0, accepted |-> 0]

Min(a, b) == IF a <= b THEN a ELSE b

\* AsyncWriteExt::write_all: all of buf is accepted, or a proper part of it
\* is and the call fails; an empty buf is no write at all.  A sink that
\* failed once accepts the writes that follow.
write_all(s, buf) ==
    IF buf = <<>> THEN s
    ELSE IF s.err
    THEN [s EXCEPT !.bytes = Cat(@, buf), !.late = @ + 1]
    ELSE IF s.armed /\ s.left = 0
    THEN [s EXCEPT !.bytes = Cat(@, Take(buf, Min(s.partial, BLen(buf) - 1))),
                   !.err = TRUE, !.armed = FALSE]
    ELSE [s EXCEPT !.bytes = Cat(@, buf),
                   !.left = IF s.armed THEN @ - 1 ELSE @,
                   !.accepted = @ + 1]

\* Writes that go on after a failure
RECURSIVE write_fields_ignoring_errors(_, _)
write_fields_ignoring_errors(s, bufs) ==
    IF bufs = <<>> THEN s
    ELSE write_fields_ignoring_errors(write_all(s, Head(bufs)), Tail(bufs))

\* output_zip.write_all(..).await?; for each buffer in turn: the first
\* failure returns
RECURSIVE write_fields(_, _)
write_fields(s, bufs) ==
    IF bufs = <<>> THEN s
    ELSE LET t == write_all(s, Head(bufs))
         IN  IF t.err THEN t ELSE write_fields(t, Tail(bufs))

----------------------------------------------------------------------------
(* LocalFileHeader *)

NoRecord == [kind |-> "None"]

\* A conversion that keeps the low 16 bits, as a cast does
try_into_by_cast(n) == [ok |-> TRUE, v |-> n % (U16Max + 1)]

\* usize -> u16 try_into
TryIntoU16(n) == IF n <= U16Max THEN [ok |-> TRUE, v |-> n] ELSE [ok |-> FALSE, v |-> 0]

LocalFileHeader_new_value(file_name) ==
    [kind |-> "LocalFileHeader",
     compression_method |-> "Store",
     squash_time |-> DUMMY_SQUASH_TIME,
     crc32 |-> <<0, 0>>,
     compressed_size |-> <<0, 0>>,
     uncompressed_size |-> <<0, 0>>,
     file_name_length |-> TryIntoU16(BLen(file_name)).v,
     file_name |-> file_name]

\* The set of ZIP features a local file header needs
LocalFileHeader_features(h) ==
    IF h.compression_method = "Deflate" THEN {"DeflateCompression"} ELSE {}

\* The buffers write() hands to write_all, in order
LocalFileHeader_write_buffers(h) ==
    << Bytes(LOCAL_FILE_HEADER_SIGNATURE),
       Bytes(U16ToLeBytes(version_needed_to_extract(LocalFileHeader_features(h)))),
       Bytes(U16ToLeBytes(get_general_purpose_bit_flag(h.file_name))),
       Bytes(U16ToLeBytes(to_compression_method_field(h.compression_method))),
       Bytes(h.squash_time),
       Bytes(ToLeBytes(h.crc32)),
       Bytes(ToLeBytes(h.compressed_size)),
       Bytes(ToLeBytes(h.uncompressed_size)),
       Bytes(U16ToLeBytes(h.file_name_length)),
       Bytes(U16ToLeBytes(0)),
       h.file_name >>

\* A reserve_space that forgets the file name
reserve_space_without_file_name(h) ==
    << LOCAL_FILE_HEADER_CONSTANT_FIELDS_PADDING >>

LocalFileHeader_reserve_space_buffers(h) ==
    << LOCAL_FILE_HEADER_CONSTANT_FIELDS_PADDING,
       Rep(0, h.file_name_length) >>

LocalFileHeader_get_size(h) ==
    BLen(LOCAL_FILE_HEADER_CONSTANT_FIELDS_PADDING) + h.file_name_length

----------------------------------------------------------------------------
(* CentralDirectoryHeader *)

CentralDirectoryHeader_new_value(file_name, local_header_offset, compression_method, squash_time, crc32, compressed_size, uncompressed_size, local_header_disk_number, spoof_version_made_by) ==
    [kind |-> "CentralDirectoryHeader",
     compression_method |-> compression_method,
     squash_time |-> squash_time,
     crc32 |-> crc32,
     compressed_size |-> compressed_size,
     uncompressed_size |-> uncompressed_size,
     local_header_disk_number |-> local_header_disk_number,
     local_header_offset |-> local_header_offset,
     file_name |-> file_name,
     spoof_version_made_by |-> spoof_version_made_by]

\* An offset check that also promotes u32::MAX itself
local_header_offset_at_least_u32_max(h) ==
    ~Gt(U32MaxAsU64, h.local_header_offset)

CentralDirectoryHeader_local_header_offset_requires_zip64_extensions(h) ==
    Gt(h.local_header_offset, U32MaxAsU64)

CentralDirectoryHeader_requires_zip64_extensions(h) ==
    CentralDirectoryHeader_local_header_offset_requires_zip64_extensions(h)

BoolAsU16(b) == IF b THEN 1 ELSE 0

\* An extra field length that counts the 4-byte header only
extra_field_length_of_header_only(h) ==
    4 * BoolAsU16(CentralDirectoryHeader_requires_zip64_extensions(h))

CentralDirectoryHeader_compute_extra_field_length(h) ==
    4 * BoolAsU16(CentralDirectoryHeader_requires_zip64_extensions(h))
        + 8 * BoolAsU16(CentralDirectoryHeader_local_header_offset_requires_zip64_extensions(h))

\* The set of ZIP features a central directory header needs
CentralDirectoryHeader_features(h) ==
    (IF h.compression_method = "Deflate" THEN {"DeflateCompression"} ELSE {})
        \cup (IF CentralDirectoryHeader_requires_zip64_extensions(h)
              THEN {"Zip64Extensions"} ELSE {})

\* The ZIP64 extended information extra field
CentralDirectoryHeader_zip64_extra_field(h) ==
    IF CentralDirectoryHeader_requires_zip64_extensions(h)
    THEN << Bytes(U16ToLeBytes(1)),
            Bytes(U16ToLeBytes(CentralDirectoryHeader_compute_extra_field_length(h) - 4)) >>
         \o (IF CentralDirectoryHeader_local_header_offset_requires_zip64_extensions(h)
             THEN << Bytes(ToLeBytes(h.local_header_offset)) >>
             ELSE << >>)
    ELSE << >>

\* The buffers write() hands to write_all, in order
CentralDirectoryHeader_write_buffers(h) ==
    << Bytes(CENTRAL_DIRECTORY_HEADER_SIGNATURE),
       Bytes(get_version_made_by(h.spoof_version_made_by)),
       Bytes(U16ToLeBytes(version_needed_to_extract(CentralDirectoryHeader_features(h)))),
       Bytes(U16ToLeBytes(get_general_purpose_bit_flag(h.file_name))),
       Bytes(U16ToLeBytes(to_compression_method_field(h.compression_method))),
       Bytes(h.squash_time),
       Bytes(ToLeBytes(h.crc32)),
       Bytes(ToLeBytes(h.compressed_size)),
       Bytes(ToLeBytes(h.uncompressed_size)),
       Bytes(U16ToLeBytes(BLen(h.file_name) % (U16Max + 1))),
       Bytes(U16ToLeBytes(CentralDirectoryHeader_compute_extra_field_length(h))),
       Rep(0, 2),
       Bytes(U16ToLeBytes(h.local_header_disk_number)),
       Rep(0, 2),
       Bytes(ToLeBytes(FILE_ATTRIBUTE_READONLY)),
       Bytes(ToLeBytes(
           IF CentralDirectoryHeader_local_header_offset_requires_zip64_extensions(h)
           THEN U32MaxValue
           ELSE U64AsU32(h.local_header_offset))),
       h.file_name >>
    \o CentralDirectoryHeader_zip64_extra_field(h)

\* file names are far shorter than 2^32 bytes here: `as u32` keeps the length
CentralDirectoryHeader_get_size(h) ==
    46 + BLen(h.file_name) + CentralDirectoryHeader_compute_extra_field_length(h)

----------------------------------------------------------------------------
(* EndOfCentralDirectory *)

EndOfCentralDirectory_new_value(disk_number, central_directory_start_disk_number, central_directory_entry_count_current_disk, total_central_directory_entry_count, central_directory_size, central_directory_start_offset, total_number_of_disks, current_file_offset, zip64_size_offset, spoof_version_made_by, zero_out_unused_zip64_fields) ==
    [kind |-> "EndOfCentralDirectory",
     disk_number |-> disk_number,
     central_directory_start_disk_number |-> central_directory_start_disk_number,
     central_directory_entry_count_current_disk |->
         central_directory_entry_count_current_disk,
     total_central_directory_entry_count |-> total_central_directory_entry_count,
     central_directory_size |-> central_directory_size,
     central_directory_start_offset |-> central_directory_start_offset,
     total_number_of_disks |-> total_number_of_disks,
     current_file_offset |-> current_file_offset,
     zip64_record_size_offset |-> zip64_size_offset,
     spoof_version_made_by |-> spoof_version_made_by,
     zero_out_unused_zip64_fields |-> zero_out_unused_zip64_fields]

entry_count_current_disk_requires_zip64_extensions(e) ==
    Gt(e.central_directory_entry_count_current_disk, U16MaxAsU64)

total_entry_count_requires_zip64_extensions(e) ==
    Gt(e.total_central_directory_entry_count, U16MaxAsU64)

central_directory_size_requires_zip64_extensions(e) ==
    Gt(e.central_directory_size, U32MaxAsU64)

central_directory_start_offset_requires_zip64_extensions(e) ==
    Gt(e.central_directory_start_offset, U32MaxAsU64)

\* A check that forgets the start offset of the central directory
requires_zip64_extensions_without_start_offset(e) ==
    \/ entry_count_current_disk_requires_zip64_extensions(e)
    \/ total_entry_count_requires_zip64_extensions(e)
    \/ central_directory_size_requires_zip64_extensions(e)

EndOfCentralDirectory_requires_zip64_extensions(e) ==
    \/ entry_count_current_disk_requires_zip64_extensions(e)
    \/ total_entry_count_requires_zip64_extensions(e)
    \/ central_directory_size_requires_zip64_extensions(e)
    \/ central_directory_start_offset_requires_zip64_extensions(e)

\* The sum left as it is, with no lower bound
sum_left_unclamped(a, b) == a

Max(a, b) == IF a >= b THEN a ELSE b

\* A zeroing that does not look at the field's own overflow
zero_out_every_counter(e, requires, value) ==
    IF e.zero_out_unused_zip64_fields THEN U16AsU64(0) ELSE value

\* The value written for a promotable counter of the ZIP64 record
Zip64Counter(e, requires, value) ==
    IF e.zero_out_unused_zip64_fields /\ ~requires THEN U16AsU64(0) ELSE value

\* The value written for a disk number of the ZIP64 record and locator
Zip64DiskNumber(e, value) ==
    U16AsU32(IF e.zero_out_unused_zip64_fields THEN 0 ELSE value)

\* The ZIP64 end of central directory record
Zip64Record_buffers(e) ==
    << Bytes(ZIP64_END_OF_CENTRAL_DIRECTORY_SIGNATURE),
       Bytes(ToLeBytes(I64Limbs(Max(44 + e.zip64_record_size_offset, 0)))),
       Bytes(get_version_made_by(e.spoof_version_made_by)),
       Bytes(U16ToLeBytes(to_version_needed_to_extract("Zip64Extensions"))),
       Bytes(ToLeBytes(Zip64DiskNumber(e, e.disk_number))),
       Bytes(ToLeBytes(Zip64DiskNumber(e, e.central_directory_start_disk_number))),
       Bytes(ToLeBytes(Zip64Counter(e,
           entry_count_current_disk_requires_zip64_extensions(e),
           e.central_directory_entry_count_current_disk))),
       Bytes(ToLeBytes(Zip64Counter(e,
           total_entry_count_requires_zip64_extensions(e),
           e.total_central_directory_entry_count))),
       Bytes(ToLeBytes(Zip64Counter(e,
           central_directory_size_requires_zip64_extensions(e),
           e.central_directory_size))),
       Bytes(ToLeBytes(Zip64Counter(e,
           central_directory_start_offset_requires_zip64_extensions(e),
           e.central_directory_start_offset))) >>

\* The ZIP64 end of central directory locator
Zip64Locator_buffers(e) ==
    << Bytes(ZIP64_END_OF_CENTRAL_DIRECTORY_LOCATOR_SIGNATURE),
       Bytes(ToLeBytes(Zip64DiskNumber(e, e.central_directory_start_disk_number))),
       Bytes(ToLeBytes(e.current_file_offset)),
       Bytes(ToLeBytes(e.total_number_of_disks)) >>

\* The traditional end of central directory record
ClassicRecord_buffers(e) ==
    << Bytes(END_OF_CENTRAL_DIRECTORY_SIGNATURE),
       Bytes(U16ToLeBytes(e.disk_number)),
       Bytes(U16ToLeBytes(e.central_directory_start_disk_number)),
       Bytes(U16ToLeBytes(
           IF entry_count_current_disk_requires_zip64_extensions(e)
           THEN U16Max
           ELSE U64AsU16(e.central_directory_entry_count_current_disk))),
       Bytes(U16ToLeBytes(
           IF total_entry_count_requires_zip64_extensions(e)
           THEN U16Max
           ELSE U64AsU16(e.total_central_directory_entry_count))),
       Bytes(ToLeBytes(
           IF central_directory_size_requires_zip64_extensions(e)
           THEN U32MaxValue
           ELSE U64AsU32(e.central_directory_size))),
       Bytes(ToLeBytes(
           IF central_directory_start_offset_requires_zip64_extensions(e)
           THEN U32MaxValue
           ELSE U64AsU32(e.central_directory_start_offset))),
       Rep(0, 2) >>

\* The buffers write() hands to write_all, in order
EndOfCentralDirectory_write_buffers(e) ==
    (IF EndOfCentralDirectory_requires_zip64_extensions(e)
     THEN Zip64Record_buffers(e) \o Zip64Locator_buffers(e)
     ELSE << >>)
    \o ClassicRecord_buffers(e)

EndOfCentralDirectory_get_size(e) ==
    (56 + 20) * BoolAsU16(EndOfCentralDirectory_requires_zip64_extensions(e)) + 22

----------------------------------------------------------------------------
(* State *)

NoResult == [op |-> "none", ok |-> TRUE, late |-> 0, at |-> 0]
NotReserved == [set |-> FALSE, at |-> 0, size |-> 0]
\* No fallible constructor or conversion has been called
NoArgument == [of |-> "none"]

Init ==
    /\ record = NoRecord
    /\ output_zip = <<>>
    /\ result = NoResult
    /\ calls = 0
    /\ writes = 0
    /\ reserved = NotReserved
    /\ argument = NoArgument

\* A call of write() or reserve_space() can go to the output: no call has
\* failed on it, and the bound on calls is not reached
CanCall == result.ok /\ calls < MaxCalls

\* A call that writes from the start of the output, over what it holds
written_from_the_start(op, bufs, fault) ==
    LET s == write_fields(Sink(<<>>, fault), bufs)
    IN  /\ output_zip' = s.bytes
        /\ result' = [op |-> op, ok |-> ~s.err, late |-> s.late,
                      at |-> BLen(output_zip)]
        /\ calls' = calls + 1
        /\ writes' = writes + s.accepted

\* The state after the buffers bufs were written by the operation op
Written(op, bufs, fault) ==
    LET s == write_fields(Sink(output_zip, fault), bufs)
    IN  /\ output_zip' = s.bytes
        /\ result' = [op |-> op, ok |-> ~s.err, late |-> s.late,
                      at |-> BLen(output_zip)]
        /\ calls' = calls + 1
        /\ writes' = writes + s.accepted

\* LocalFileHeader::new
LocalFileHeader_new ==
    /\ record.kind = "None"
    /\ result.op = "none"
    /\ \E file_name \in FileNames :
         /\ argument' = [of |-> "LocalFileHeader::new", file_name |-> file_name]
         /\ IF TryIntoU16(BLen(file_name)).ok
            THEN /\ record' = LocalFileHeader_new_value(file_name)
                 /\ result' = [NoResult EXCEPT !.op = "new"]
            ELSE /\ record' = NoRecord
                 /\ result' = [NoResult EXCEPT !.op = "new", !.ok = FALSE]
    /\ UNCHANGED <<output_zip, calls, writes, reserved>>

\* The caller assigns the header's public fields
LocalFileHeader_assign ==
    /\ record.kind = "LocalFileHeader"
    /\ result.ok
    /\ result.op # "write"
    /\ \E method \in CompressionMethod, content \in EntryContents :
         record' = [record EXCEPT
                      !.compression_method = method,
                      !.squash_time = content.squash_time,
                      !.crc32 = content.crc32,
                      !.compressed_size = content.compressed_size,
                      !.uncompressed_size = content.uncompressed_size]
    /\ UNCHANGED <<output_zip, result, calls, writes, reserved, argument>>

\* LocalFileHeader::write
LocalFileHeader_write ==
    /\ record.kind = "LocalFileHeader"
    /\ CanCall
    /\ LET bufs == LocalFileHeader_write_buffers(record)
       IN  \E fault \in Faults(writes) : Written("write", bufs, fault)
    /\ UNCHANGED <<record, reserved, argument>>

\* LocalFileHeader::reserve_space
LocalFileHeader_reserve_space ==
    /\ record.kind = "LocalFileHeader"
    /\ CanCall
    /\ LET bufs == LocalFileHeader_reserve_space_buffers(record)
       IN  \E fault \in Faults(writes) : Written("reserve_space", bufs, fault)
    /\ reserved' = IF result'.ok
                   THEN [set |-> TRUE, at |-> BLen(output_zip),
                         size |-> BLen(output_zip') - BLen(output_zip)]
                   ELSE reserved
    /\ UNCHANGED <<record, argument>>

\* CentralDirectoryHeader::new
CentralDirectoryHeader_new ==
    /\ record.kind = "None"
    /\ result.op = "none"
    /\ \E file_name \in FileNames, local_header_offset \in LocalHeaderOffsets,
          compression_method \in CompressionMethod, content \in EntryContents,
          spoof_version_made_by \in BOOLEAN :
         record' = CentralDirectoryHeader_new_value(
                       file_name, local_header_offset, compression_method,
                       content.squash_time, content.crc32, content.compressed_size,
                       content.uncompressed_size, LocalHeaderDiskNumber(content),
                       spoof_version_made_by)
    /\ result' = [NoResult EXCEPT !.op = "new"]
    /\ UNCHANGED <<output_zip, calls, writes, reserved, argument>>

\* CentralDirectoryHeader::write
CentralDirectoryHeader_write ==
    /\ record.kind = "CentralDirectoryHeader"
    /\ CanCall
    /\ LET bufs == CentralDirectoryHeader_write_buffers(record)
       IN  \E fault \in Faults(writes) : Written("write", bufs, fault)
    /\ UNCHANGED <<record, reserved, argument>>

\* EndOfCentralDirectory::new
EndOfCentralDirectory_new ==
    /\ record.kind = "None"
    /\ result.op = "none"
    /\ \E layout \in Layouts,
          central_directory_entry_count_current_disk \in EntryCounts,
          total_central_directory_entry_count \in EntryCounts,
          central_directory_size \in DirectoryExtents,
          central_directory_start_offset \in DirectoryExtents,
          spoof_version_made_by \in BOOLEAN,
          zero_out_unused_zip64_fields \in BOOLEAN :
         record' = EndOfCentralDirectory_new_value(
                       layout.disk_number, layout.central_directory_start_disk_number,
                       central_directory_entry_count_current_disk,
                       total_central_directory_entry_count,
                       central_directory_size, central_directory_start_offset,
                       layout.total_number_of_disks, layout.current_file_offset,
                       layout.zip64_size_offset, spoof_version_made_by,
                       zero_out_unused_zip64_fields)
    /\ result' = [NoResult EXCEPT !.op = "new"]
    /\ UNCHANGED <<output_zip, calls, writes, reserved, argument>>

\* EndOfCentralDirectory::write
EndOfCentralDirectory_write ==
    /\ record.kind = "EndOfCentralDirectory"
    /\ CanCall
    /\ LET bufs == EndOfCentralDirectory_write_buffers(record)
       IN  \E fault \in Faults(writes) : Written("write", bufs, fault)
    /\ UNCHANGED <<record, reserved, argument>>

\* The record and the output are dropped
Release ==
    /\ result.op # "none"
    /\ record' = NoRecord
    /\ output_zip' = <<>>
    /\ result' = NoResult
    /\ calls' = 0
    /\ writes' = 0
    /\ reserved' = NotReserved
    /\ argument' = NoArgument

Next ==
    \/ LocalFileHeader_new
    \/ LocalFileHeader_assign
    \/ LocalFileHeader_write
    \/ LocalFileHeader_reserve_space
    \/ CentralDirectoryHeader_new
    \/ CentralDirectoryHeader_write
    \/ EndOfCentralDirectory_new
    \/ EndOfCentralDirectory_write
    \/ Release

Spec == Init /\ [][Next]_vars

\* The conversions of CompressionMethod, applied to every method and to every
\* 16-bit field value
CompressionMethod_Init ==
    /\ record = NoRecord
    /\ output_zip = <<>>
    /\ result = NoResult
    /\ calls = 0
    /\ writes = 0
    /\ reserved = NotReserved
    /\ \/ \E method \in CompressionMethod :
            argument = [of |-> "to_compression_method_field", method |-> method]
       \/ \E field \in 0..U16Max :
            argument = [of |-> "from_compression_method_field", field |-> field]

\* CompressionMethod::to_compression_method_field
CompressionMethod_to_compression_method_field ==
    /\ argument.of = "to_compression_method_field"
    /\ result.op = "none"
    /\ result' = [op |-> "to_compression_method_field", ok |-> TRUE,
                  field |-> to_compression_method_field(argument.method)]
    /\ UNCHANGED <<record, output_zip, calls, writes, reserved, argument>>

\* CompressionMethod::from_compression_method_field, of the field value given
\* or of the field value to_compression_method_field returned
CompressionMethod_from_compression_method_field ==
    /\ \/ /\ argument.of = "from_compression_method_field"
          /\ result.op = "none"
          /\ LET value == from_compression_method_field(argument.field)
             IN  result' = [op |-> "from_compression_method_field",
                            ok |-> value.ok, value |-> value]
       \/ /\ result.op = "to_compression_method_field"
          /\ LET value == from_compression_method_field(result.field)
             IN  result' = [op |-> "from_compression_method_field",
                            ok |-> value.ok, value |-> value]
    /\ UNCHANGED <<record, output_zip, calls, writes, reserved, argument>>

CompressionMethod_Next ==
    \/ CompressionMethod_to_compression_method_field
    \/ CompressionMethod_from_compression_method_field

SpecCompressionMethod == CompressionMethod_Init /\ [][CompressionMethod_Next]_vars

\* EndOfCentralDirectory::new, of every i8 zip64_size_offset, for archives with
\* and without too many entries for the classic record
EndOfCentralDirectory_new_of_size_offset ==
    /\ record.kind = "None"
    /\ result.op = "none"
    /\ \E layout \in Layouts,
          total_central_directory_entry_count \in {U16MaxAsU64, <<0, 0, 1, 4464>>},
          zip64_size_offset \in SizeOffsets :
         record' = EndOfCentralDirectory_new_value(
                       layout.disk_number, layout.central_directory_start_disk_number,
                       U16AsU64(0), total_central_directory_entry_count,
                       <<0, 0, 1, 515>>, <<0, 0, 1, 515>>,
                       layout.total_number_of_disks, layout.current_file_offset,
                       zip64_size_offset, FALSE, FALSE)
    /\ result' = [NoResult EXCEPT !.op = "new"]
    /\ UNCHANGED <<output_zip, calls, writes, reserved, argument>>

SizeOffset_Next ==
    \/ EndOfCentralDirectory_new_of_size_offset
    \/ EndOfCentralDirectory_write
    \/ Release

SpecSizeOffset == Init /\ [][SizeOffset_Next]_vars

\* The bytes the last call emitted
Emitted == Drop(output_zip, result.at)

----------------------------------------------------------------------------
(* What the claims are stated with *)

\* The last call was a successful write() / reserve_space() of a record of
\* this kind
Wrote(kind) == record.kind = kind /\ result.op = "write" /\ result.ok
Reserved == record.kind = "LocalFileHeader" /\ result.op = "reserve_space" /\ result.ok

\* All the buffers, joined
RECURSIVE Joined(_)
Joined(bufs) == IF bufs = <<>> THEN <<>> ELSE Cat(Head(bufs), Joined(Tail(bufs)))

\* The number a little-endian byte sequence of even length stands for, as limbs
RECURSIVE FromLeBytes(_)
FromLeBytes(bs) ==
    IF bs = <<>> THEN <<>>
    ELSE FromLeBytes(Tail(Tail(bs))) \o <<bs[1] + 256 * bs[2]>>

\* A 64-bit number is above u32::MAX, above u16::MAX
AboveU32(v) == v[1] > 0 \/ v[2] > 0
AboveU16(v) == v[1] > 0 \/ v[2] > 0 \/ v[3] > 0

NameLen == BLen(record.file_name)

----------------------------------------------------------------------------
\* C1: a local file header built by new() has get_size() = 30 + length of the
\* file name, whatever was assigned to its public fields; a successful
\* reserve_space() emits exactly that many bytes, all zero, and a successful
\* write() emits exactly that many bytes: the size of the hole reserved before.
C1_LocalSizesAgree ==
    record.kind = "LocalFileHeader" =>
        /\ NameLen <= U16Max
        /\ LocalFileHeader_get_size(record) = 30 + NameLen
        /\ Reserved =>
             /\ BLen(Emitted) = LocalFileHeader_get_size(record)
             /\ \A i \in 1..Len(Emitted) : Emitted[i].b = 0
        /\ Wrote("LocalFileHeader") =>
             BLen(Emitted) = LocalFileHeader_get_size(record)
        /\ reserved.set => reserved.size = LocalFileHeader_get_size(record)

\* A header with a 65535-byte name, assigned to after its space was reserved,
\* then written
C1_Witness ==
    /\ Wrote("LocalFileHeader")
    /\ reserved.set
    /\ NameLen = U16Max
    /\ record.compression_method = "Deflate"
    /\ record.crc32 # <<0, 0>>

----------------------------------------------------------------------------
\* C2: for a central directory header whose file name has at most 65535
\* bytes, get_size() is the number of bytes a successful write() emits:
\* 46 + length of the file name + length of the extra field, which is 12 when
\* local_header_offset is above u32::MAX and 0 otherwise.
C2_CentralSizeIsWritten ==
    (record.kind = "CentralDirectoryHeader" /\ NameLen <= U16Max) =>
        LET extra == IF AboveU32(record.local_header_offset) THEN 12 ELSE 0
        IN  /\ CentralDirectoryHeader_compute_extra_field_length(record) = extra
            /\ CentralDirectoryHeader_get_size(record) = 46 + NameLen + extra
            /\ Wrote("CentralDirectoryHeader") =>
                 BLen(Emitted) = CentralDirectoryHeader_get_size(record)

\* A written header with a 65535-byte name and an offset above u32::MAX
C2_Witness ==
    /\ Wrote("CentralDirectoryHeader")
    /\ NameLen = U16Max
    /\ AboveU32(record.local_header_offset)
    /\ BLen(Emitted) = 46 + U16Max + 12

----------------------------------------------------------------------------
(* The places of the fields of the end of central directory *)

\* Some counter of the end of central directory is above its classic width
AnyCounterAbove(e) ==
    \/ AboveU16(e.central_directory_entry_count_current_disk)
    \/ AboveU16(e.total_central_directory_entry_count)
    \/ AboveU32(e.central_directory_size)
    \/ AboveU32(e.central_directory_start_offset)

Zip64RecordSignature == <<80, 75, 6, 6>>
Zip64LocatorSignature == <<80, 75, 6, 7>>
ClassicSignature == <<80, 75, 5, 6>>

\* C3: a successful EndOfCentralDirectory::write emits the 56-byte ZIP64
\* record and the 20-byte locator, in this order, exactly when one of the
\* four counters is above its classic width; the classic 22-byte record comes
\* once, last; get_size() is the number of bytes emitted, 22 or 98.
C3_Zip64RecordIffOverflow ==
    Wrote("EndOfCentralDirectory") =>
        /\ BLen(Emitted) = EndOfCentralDirectory_get_size(record)
        /\ IF AnyCounterAbove(record)
           THEN /\ BLen(Emitted) = 98
                /\ Field(Emitted, 0, 4) = Zip64RecordSignature
                /\ Field(Emitted, 56, 4) = Zip64LocatorSignature
                /\ Field(Emitted, 76, 4) = ClassicSignature
           ELSE /\ BLen(Emitted) = 22
                /\ Field(Emitted, 0, 4) = ClassicSignature

\* Written with a total entry count of 70000 and every other counter in range
C3_Witness ==
    /\ Wrote("EndOfCentralDirectory")
    /\ record.total_central_directory_entry_count = <<0, 0, 1, 4464>>
    /\ ~AboveU16(record.central_directory_entry_count_current_disk)
    /\ ~AboveU32(record.central_directory_size)
    /\ ~AboveU32(record.central_directory_start_offset)
    /\ BLen(Emitted) = 98

----------------------------------------------------------------------------
\* C4: a successful CentralDirectoryHeader::write with local_header_offset at
\* most u32::MAX emits an extra field length of 0, no extra field and the
\* real offset in the 4-byte offset field; with a larger offset it emits
\* 0xFFFFFFFF in the offset field, an extra field length of 12 and, after the
\* file name, the tag 0x0001, the data length 8 and the real offset in 8
\* bytes.  Nothing but the offset decides which.
C4_Zip64ExtraFieldIffLargeOffset ==
    Wrote("CentralDirectoryHeader") =>
        IF AboveU32(record.local_header_offset)
        THEN /\ FromLeBytes(Field(Emitted, 30, 2)) = <<12>>
             /\ Field(Emitted, 42, 4) = <<255, 255, 255, 255>>
             /\ BLen(Emitted) = 46 + NameLen + 12
             /\ Take(Drop(Emitted, 46), NameLen) = record.file_name
             /\ FromLeBytes(Field(Emitted, 46 + NameLen, 2)) = <<1>>
             /\ FromLeBytes(Field(Emitted, 46 + NameLen + 2, 2)) = <<8>>
             /\ FromLeBytes(Field(Emitted, 46 + NameLen + 4, 8))
                    = record.local_header_offset
        ELSE /\ FromLeBytes(Field(Emitted, 30, 2)) = <<0>>
             /\ <<0, 0>> \o FromLeBytes(Field(Emitted, 42, 4))
                    = record.local_header_offset
             /\ BLen(Emitted) = 46 + NameLen
             /\ Drop(Emitted, 46) = record.file_name

\* Written with the offset u32::MAX + 1
C4_Witness ==
    /\ Wrote("CentralDirectoryHeader")
    /\ record.local_header_offset = <<0, 1, 0, 0>>
    /\ Field(Emitted, 42, 4) = <<255, 255, 255, 255>>

----------------------------------------------------------------------------
\* C5: in the bytes of a successful write, a classic field that holds its
\* sentinel (0xFFFF in an entry count of the classic end of central directory
\* record, 0xFFFFFFFF in its size or start offset, 0xFFFFFFFF in the local
\* header offset of a central directory header) comes with the ZIP64
\* structure that carries the field's true 64-bit value.
C5_SentinelComesWithZip64Value ==
    /\ Wrote("EndOfCentralDirectory") =>
         LET classic == Drop(Emitted, BLen(Emitted) - 22)
             zip64 == /\ BLen(Emitted) = 98
                      /\ Field(Emitted, 0, 4) = Zip64RecordSignature
         IN  /\ Field(classic, 8, 2) = <<255, 255>> =>
                  /\ zip64
                  /\ FromLeBytes(Field(Emitted, 24, 8))
                         = record.central_directory_entry_count_current_disk
             /\ Field(classic, 10, 2) = <<255, 255>> =>
                  /\ zip64
                  /\ FromLeBytes(Field(Emitted, 32, 8))
                         = record.total_central_directory_entry_count
             /\ Field(classic, 12, 4) = <<255, 255, 255, 255>> =>
                  /\ zip64
                  /\ FromLeBytes(Field(Emitted, 40, 8)) = record.central_directory_size
             /\ Field(classic, 16, 4) = <<255, 255, 255, 255>> =>
                  /\ zip64
                  /\ FromLeBytes(Field(Emitted, 48, 8))
                         = record.central_directory_start_offset
    /\ Wrote("CentralDirectoryHeader") =>
         (Field(Emitted, 42, 4) = <<255, 255, 255, 255>> =>
             /\ BLen(Emitted) = 46 + NameLen + 12
             /\ FromLeBytes(Field(Emitted, 46 + NameLen, 2)) = <<1>>
             /\ FromLeBytes(Field(Emitted, 46 + NameLen + 4, 8))
                    = record.local_header_offset)

----------------------------------------------------------------------------
(* The fields of the ZIP64 record and locator, as written *)

\* A written ZIP64 record and locator
WroteZip64 == Wrote("EndOfCentralDirectory") /\ BLen(Emitted) = 98

Zero64 == <<0, 0, 0, 0>>

\* The four promotable counters: where the ZIP64 record holds each, its real
\* value, and whether it is above its classic width
Zip64Counters ==
    << [at |-> 24, real |-> record.central_directory_entry_count_current_disk,
        above |-> AboveU16(record.central_directory_entry_count_current_disk)],
       [at |-> 32, real |-> record.total_central_directory_entry_count,
        above |-> AboveU16(record.total_central_directory_entry_count)],
       [at |-> 40, real |-> record.central_directory_size,
        above |-> AboveU32(record.central_directory_size)],
       [at |-> 48, real |-> record.central_directory_start_offset,
        above |-> AboveU32(record.central_directory_start_offset)] >>

\* The three disk numbers: where the ZIP64 record and the locator hold each,
\* and its real value
Zip64DiskNumbers ==
    << [at |-> 16, real |-> record.disk_number],
       [at |-> 20, real |-> record.central_directory_start_disk_number],
       [at |-> 60, real |-> record.central_directory_start_disk_number] >>

\* C6 as claimed: each counter of the ZIP64 record is written as 0 if and
\* only if zero_out_unused_zip64_fields is set and the counter is not above
\* its classic width, and holds its real value otherwise; the three disk
\* numbers are 0 exactly when the flag is set.
C6_ZeroIffFlagged ==
    WroteZip64 =>
        /\ \A i \in 1..4 :
             LET c == Zip64Counters[i]
                 written == FromLeBytes(Field(Emitted, c.at, 8))
                 zeroed == record.zero_out_unused_zip64_fields /\ ~c.above
             IN  /\ (written = Zero64) <=> zeroed
                 /\ ~zeroed => written = c.real
        /\ \A i \in 1..3 :
             LET d == Zip64DiskNumbers[i]
             IN  (FromLeBytes(Field(Emitted, d.at, 4)) = <<0, 0>>)
                     <=> record.zero_out_unused_zip64_fields

\* C6, amended: each counter of the ZIP64 record is written as 0 when
\* zero_out_unused_zip64_fields is set and the counter is not above its
\* classic width, and as its real value otherwise (which may itself be 0); a
\* counter above its classic width is never zeroed; the three disk numbers
\* are written as 0 when the flag is set and as the real disk numbers
\* otherwise.
C6_ZeroedOnlyWhenFlaggedAndInRange ==
    WroteZip64 =>
        /\ \A i \in 1..4 :
             LET c == Zip64Counters[i]
                 written == FromLeBytes(Field(Emitted, c.at, 8))
             IN  /\ written = IF record.zero_out_unused_zip64_fields /\ ~c.above
                              THEN Zero64 ELSE c.real
                 /\ c.above => written = c.real /\ written # Zero64
        /\ \A i \in 1..3 :
             LET d == Zip64DiskNumbers[i]
             IN  FromLeBytes(Field(Emitted, d.at, 4))
                     = IF record.zero_out_unused_zip64_fields
                       THEN <<0, 0>> ELSE <<0, d.real>>

\* Written with the flag set, a total entry count of 70000, which is kept,
\* and a central directory size in range, which is zeroed
C6_Witness ==
    /\ WroteZip64
    /\ record.zero_out_unused_zip64_fields
    /\ record.total_central_directory_entry_count = <<0, 0, 1, 4464>>
    /\ FromLeBytes(Field(Emitted, 32, 8)) = <<0, 0, 1, 4464>>
    /\ Field(Emitted, 76 + 10, 2) = <<255, 255>>
    /\ record.central_directory_size = <<0, 0, 1, 515>>
    /\ FromLeBytes(Field(Emitted, 40, 8)) = Zero64

----------------------------------------------------------------------------
\* The buffers a call of op on the record r writes when nothing fails
Buffers(r, op) ==
    CASE r.kind = "LocalFileHeader" /\ op = "write" ->
             LocalFileHeader_write_buffers(r)
      [] r.kind = "LocalFileHeader" /\ op = "reserve_space" ->
             LocalFileHeader_reserve_space_buffers(r)
      [] r.kind = "CentralDirectoryHeader" /\ op = "write" ->
             CentralDirectoryHeader_write_buffers(r)
      [] r.kind = "EndOfCentralDirectory" /\ op = "write" ->
             EndOfCentralDirectory_write_buffers(r)

\* The last call was a write() or a reserve_space()
Called == result.op \in {"write", "reserve_space"}

\* What the sink holds after a call: after a failed one, no write followed
\* the failed write, and the call emitted a proper prefix of what the
\* successful call emits; a successful one emitted all of it
C7_EmittedIsPrefix ==
    Called =>
        LET whole == Joined(Buffers(record, result.op))
        IN  IF result.ok
            THEN Emitted = whole
            ELSE /\ result.late = 0
                 /\ BLen(Emitted) < BLen(whole)
                 /\ IsPrefix(Emitted, whole)

\* C7: a write to the sink that fails during write() or reserve_space() ends
\* the call with the error: no write follows it, the bytes the sink accepted
\* are a prefix of the bytes of the successful call, what the output held
\* before is kept, and the record is unchanged.
C7_FailureStopsTheCall ==
    /\ []C7_EmittedIsPrefix
    /\ [][calls' = calls + 1 =>
            /\ record' = record
            /\ result'.at = BLen(output_zip)
            /\ IsPrefix(output_zip, output_zip')]_vars

\* An end of central directory whose write failed in the locator, one byte
\* into its signature
C7_Witness ==
    /\ record.kind = "EndOfCentralDirectory"
    /\ result.op = "write"
    /\ ~result.ok
    /\ BLen(Emitted) = 57

----------------------------------------------------------------------------
(* spoof_version_made_by *)

\* The bytes a successful write of the record r emits
WriteBytes(r) == Joined(Buffers(r, "write"))

\* The record r as the collaborator builds it under the policy spoof: the
\* policy is an argument of the constructors of the central directory header
\* and of the end of central directory, and of no other
BuiltUnder(r, spoof) ==
    IF r.kind \in {"CentralDirectoryHeader", "EndOfCentralDirectory"}
    THEN [r EXCEPT !.spoof_version_made_by = spoof]
    ELSE r

\* The version made by, as the claim gives it
VersionMadeBy(spoof) == IF spoof THEN <<30, 3>> ELSE <<45, 0>>

\* C8 as claimed: for a local file header, a central directory header and an
\* end of central directory alike, the bytes written under
\* spoof_version_made_by differ from the bytes written without it.
C8_SpoofChangesEveryRecord ==
    (result.op = "write" /\ result.ok) =>
        WriteBytes(BuiltUnder(record, TRUE)) # WriteBytes(BuiltUnder(record, FALSE))

\* C8, amended: spoof_version_made_by is an input of the central directory
\* header and of the end of central directory, not of the local file header,
\* which has no version made by.  Two central directory headers that differ
\* only in it are written differently; two ends of central directory that
\* differ only in it are written differently exactly when the ZIP64 record is
\* emitted, the classic record having no version made by.  The field reads
\* [30, 3] when spoofing and the little-endian 45 otherwise.
C8_SpoofChangesVersionMadeBy ==
    /\ record.kind = "LocalFileHeader" =>
         "spoof_version_made_by" \notin DOMAIN record
    /\ Wrote("CentralDirectoryHeader") =>
         /\ Field(Emitted, 4, 2) = VersionMadeBy(record.spoof_version_made_by)
         /\ WriteBytes(BuiltUnder(record, TRUE)) # WriteBytes(BuiltUnder(record, FALSE))
    /\ Wrote("EndOfCentralDirectory") =>
         IF AnyCounterAbove(record)
         THEN /\ Field(Emitted, 12, 2) = VersionMadeBy(record.spoof_version_made_by)
              /\ WriteBytes(BuiltUnder(record, TRUE))
                     # WriteBytes(BuiltUnder(record, FALSE))
         ELSE WriteBytes(BuiltUnder(record, TRUE)) = WriteBytes(BuiltUnder(record, FALSE))

\* A ZIP64 end of central directory written under spoofing
C8_Witness ==
    /\ WroteZip64
    /\ record.spoof_version_made_by
    /\ Field(Emitted, 12, 2) = <<30, 3>>

----------------------------------------------------------------------------
\* The highest version among the features, 10 when there is none
HighestVersion(features) ==
    IF "Zip64Extensions" \in features THEN 45
    ELSE IF "DeflateCompression" \in features THEN 20
    ELSE 10

\* C9: version_needed_to_extract gives the version of the highest-ranked
\* feature of the set (45 > 20 > 10, and 10 for the empty set); the version
\* needed of a written local file header is 20 if its method is Deflate and
\* 10 otherwise; that of a written central directory header is 45 if
\* local_header_offset is above u32::MAX, else 20 if its method is Deflate,
\* else 10.
C9_VersionNeeded ==
    /\ \A features \in SUBSET {ZipFeature[i] : i \in 1..Len(ZipFeature)} :
         version_needed_to_extract(features) = HighestVersion(features)
    /\ Wrote("LocalFileHeader") =>
         FromLeBytes(Field(Emitted, 4, 2))
             = << IF record.compression_method = "Deflate" THEN 20 ELSE 10 >>
    /\ Wrote("CentralDirectoryHeader") =>
         FromLeBytes(Field(Emitted, 6, 2))
             = << IF AboveU32(record.local_header_offset) THEN 45
                  ELSE IF record.compression_method = "Deflate" THEN 20
                  ELSE 10 >>

\* A written central directory header that uses Deflate and ZIP64
C9_Witness ==
    /\ Wrote("CentralDirectoryHeader")
    /\ record.compression_method = "Deflate"
    /\ AboveU32(record.local_header_offset)
    /\ Field(Emitted, 6, 2) = <<45, 0>>

----------------------------------------------------------------------------
\* The file name has a byte of 128 or more
HasHighByte(file_name) == \E i \in 1..Len(file_name) : file_name[i].b >= 128

\* The general purpose flag of a name: bit 11 alone, or nothing
FlagOf(file_name) == IF HasHighByte(file_name) THEN <<0, 8>> ELSE <<0, 0>>

\* C10: the general purpose flag of a written local file header and of a
\* written central directory header is 0x0800 if the file name has a byte of
\* 128 or more and 0x0000 otherwise; a central directory header of the same
\* file name as a local file header is written with the same flag.
C10_Utf8FlagIffHighByte ==
    /\ Wrote("LocalFileHeader") =>
         /\ Field(Emitted, 6, 2) = FlagOf(record.file_name)
         /\ \A offset \in LocalHeaderOffsets, spoof \in BOOLEAN :
              Field(WriteBytes(CentralDirectoryHeader_new_value(
                        record.file_name, offset, record.compression_method,
                        record.squash_time, record.crc32, record.compressed_size,
                        record.uncompressed_size, 0, spoof)), 8, 2)
                  = Field(Emitted, 6, 2)
    /\ Wrote("CentralDirectoryHeader") =>
         /\ Field(Emitted, 8, 2) = FlagOf(record.file_name)
         /\ Field(WriteBytes(LocalFileHeader_new_value(record.file_name)), 6, 2)
                = Field(Emitted, 8, 2)

\* A written central directory header whose name starts with an ASCII byte
\* and has a byte of 128 or more
C10_Witness ==
    /\ Wrote("CentralDirectoryHeader")
    /\ record.file_name # <<>>
    /\ record.file_name[1].b < 128
    /\ HasHighByte(record.file_name)
    /\ Field(Emitted, 8, 2) = <<0, 8>>

----------------------------------------------------------------------------
\* The last step was a call of LocalFileHeader::new
LocalFileHeaderNewCalled ==
    /\ argument.of = "LocalFileHeader::new"
    /\ result.op = "new"

\* The outcome of LocalFileHeader::new agrees with the length of the name
C11_OutcomeFollowsLength ==
    LocalFileHeaderNewCalled =>
        /\ result.ok <=> BLen(argument.file_name) <= 65535
        /\ result.ok =>
             /\ record.kind = "LocalFileHeader"
             /\ record.file_name = argument.file_name
             /\ record.file_name_length = BLen(argument.file_name)
        /\ ~result.ok =>
             /\ record = NoRecord
             /\ output_zip = <<>>
             /\ writes = 0

\* C11: LocalFileHeader::new succeeds if and only if the file name is at most
\* 65535 bytes long.  When it succeeds the header holds the name, its byte
\* length as file_name_length, the Store method, the squash time of bytes
\* 00 00 21 00 and zero CRC and sizes; when it fails there is no header and
\* nothing is written.  Either way the call writes nothing.
C11_NewSucceedsIffNameFits ==
    /\ []C11_OutcomeFollowsLength
    /\ [][LocalFileHeaderNewCalled' /\ result.op = "none" =>
            /\ output_zip' = output_zip
            /\ writes' = writes
            /\ result'.ok =>
                 /\ record'.compression_method = "Store"
                 /\ record'.squash_time = <<0, 0, 33, 0>>
                 /\ record'.crc32 = <<0, 0>>
                 /\ record'.compressed_size = <<0, 0>>
                 /\ record'.uncompressed_size = <<0, 0>>]_vars

\* LocalFileHeader::new was refused a name of 65536 bytes
C11_Witness ==
    /\ LocalFileHeaderNewCalled
    /\ BLen(argument.file_name) = 65536
    /\ ~result.ok
    /\ record = NoRecord

----------------------------------------------------------------------------
\* from_compression_method_field has returned
FieldRead == result.op = "from_compression_method_field"

\* C12: under SpecCompressionMethod, to_compression_method_field gives 0 for
\* Store and 8 for Deflate; reading back the field it gave returns Ok of the
\* method that was converted; and reading a 16-bit field value other than 0
\* and 8 returns the error UnknownCompressionMethod carrying that very value,
\* never a method.
C12_FieldRoundTrip ==
    /\ result.op = "to_compression_method_field" =>
         result.field = (IF argument.method = "Store" THEN 0 ELSE 8)
    /\ FieldRead /\ argument.of = "to_compression_method_field" =>
         /\ result.ok
         /\ result.value = [ok |-> TRUE, method |-> argument.method]
    /\ FieldRead /\ argument.of = "from_compression_method_field" =>
         IF argument.field \in {0, 8}
         THEN /\ result.ok
              /\ result.value.method = (IF argument.field = 0 THEN "Store" ELSE "Deflate")
         ELSE /\ ~result.ok
              /\ result.value.error = "UnknownCompressionMethod"
              /\ result.value.field = argument.field
              /\ DOMAIN result.value = {"ok", "error", "field"}

\* The field value 65535 was read and refused with that value
C12_Witness ==
    /\ FieldRead
    /\ argument.of = "from_compression_method_field"
    /\ argument.field = 65535
    /\ result.value = [ok |-> FALSE, error |-> "UnknownCompressionMethod", field |-> 65535]

----------------------------------------------------------------------------
\* The record size field of the ZIP64 record just written
Zip64RecordSize == FromLeBytes(Field(Emitted, 4, 8))

\* C13: under SpecSizeOffset, whenever the ZIP64 end of central directory
\* record is written, its 8-byte record size field is 44 plus the size
\* correction when that sum is positive and 0 otherwise, for every correction
\* from -128 to 127: it is 44 for the correction 0, 0 for every correction of
\* -44 or less, at most 171, and never the bytes of a negative number.
C13_RecordSizeIsClamped ==
    WroteZip64 =>
        LET offset == record.zip64_record_size_offset
        IN  /\ offset \in SizeOffsets
            /\ Zip64RecordSize[1] = 0 /\ Zip64RecordSize[2] = 0 /\ Zip64RecordSize[3] = 0
            /\ Zip64RecordSize[4] = (IF 44 + offset > 0 THEN 44 + offset ELSE 0)
            /\ Zip64RecordSize[4] <= 171
            /\ offset = 0 => Zip64RecordSize = <<0, 0, 0, 44>>
            /\ offset <= 0 - 44 => Zip64RecordSize = <<0, 0, 0, 0>>

\* A ZIP64 record written with the correction -128, whose size field is 0
C13_Witness ==
    /\ WroteZip64
    /\ record.zip64_record_size_offset = 0 - 128
    /\ Field(Emitted, 4, 8) = <<0, 0, 0, 0, 0, 0, 0, 0>>

----------------------------------------------------------------------------
\* get_size() of the record r
GetSize(r) ==
    CASE r.kind = "LocalFileHeader" -> LocalFileHeader_get_size(r)
      [] r.kind = "CentralDirectoryHeader" -> CentralDirectoryHeader_get_size(r)
      [] r.kind = "EndOfCentralDirectory" -> EndOfCentralDirectory_get_size(r)

\* Every call made on the output was a write() of the record, and every one
\* succeeded: no space was reserved, and the fields of a local file header
\* are not assigned once it is written
OnlyWrites ==
    /\ record.kind # "None"
    /\ result.op = "write"
    /\ result.ok
    /\ ~reserved.set

\* The i-th copy of size bytes in the output, counted from 0
Copy(i, size) == Take(Drop(output_zip, i * size), size)

\* After k successful writes the output is k copies of the record's bytes
C14_OutputIsCopies ==
    OnlyWrites =>
        LET size == GetSize(record)
        IN  /\ calls >= 1
            /\ BLen(output_zip) = calls * size
            /\ \A i \in 0..(calls - 1) :
                 /\ Copy(i, size) = Copy(0, size)
                 /\ Copy(i, size) = WriteBytes(record)

\* C14: a successful write() appends the bytes of the record, which depend
\* on the record's fields only, and leaves the record as it was: after k >= 1
\* successful write() calls on the same record, with no other call on the
\* output, the output is k equal consecutive copies of the record's bytes,
\* each get_size() bytes long, and get_size() is the same before and after
\* each call.
C14_WriteRepeats ==
    /\ []C14_OutputIsCopies
    /\ [][result'.op = "write" /\ calls' = calls + 1 =>
            /\ record' = record
            /\ GetSize(record') = GetSize(record)
            /\ result'.ok => Drop(output_zip', BLen(output_zip)) = WriteBytes(record)]_vars

\* A central directory header with a ZIP64 extra field, written twice
C14_Witness ==
    /\ OnlyWrites
    /\ record.kind = "CentralDirectoryHeader"
    /\ AboveU32(record.local_header_offset)
    /\ calls = 2
    /\ BLen(output_zip) = 2 * (46 + BLen(record.file_name) + 12)
    /\ record.file_name # <<>>

====
